---- MODULE Spec2Model ----
(***************************************************************************)
(* Model of e8_fractal_power_module.py: the E8 root generator, the Cartan  *)
(* torus, the qutrit states, the control-rate scheduler and the minimal    *)
(* renderer of E8FractalPowerModule.                                       *)
(*                                                                         *)
(* Numbers.  A finite float is an integer counting steps of 2^-FracBits    *)
(* (Unit is 1.0).  A float32 keeps PrecBits significant bits (F32 rounds   *)
(* half-to-even, as IEEE does); a Python float / float64 is exact on the   *)
(* grid.  Inf, -Inf and NaN are the three values outside the finite range. *)
(***************************************************************************)
EXTENDS Integers, Sequences, FiniteSets

\* eng[e]  : engine e, an E8FractalPowerModule instance (a record of its fields)
\* out[e]  : the two channels the engine's last render call returned
\* hist[e] : the calls made on engine e so far, its construction first
\* gen     : the loop state of a running generate_e8_roots()
VARIABLES eng, out, hist, gen

vars == <<eng, out, hist, gen>>

\* ---------------------------------------------------------------- bounds
FracBits == 11
PrecBits == 12

\* ------------------------------------------------------- integer helpers
Pow2(n) == 2 ^ n

Unit == Pow2(FracBits)

Abs(x) == IF x < 0 THEN -x ELSE x

Sgn(x) == IF x < 0 THEN -1 ELSE IF x > 0 THEN 1 ELSE 0

Min(a, b) == IF a <= b THEN a ELSE b

Max(a, b) == IF a >= b THEN a ELSE b

\* Python's round(): the nearest integer to n/d (d > 0), ties to even.
RoundHalfEven(n, d) ==
    LET q == n \div d
        r == n % d
    IN  IF 2 * r < d THEN q
        ELSE IF 2 * r > d THEN q + 1
        ELSE IF q % 2 = 0 THEN q ELSE q + 1

\* n/d rounded to the nearest integer, for either sign of n (d > 0).
RoundDiv(n, d) == Sgn(n) * RoundHalfEven(Abs(n), d)

\* Values of the grid: num/den as a count of grid steps.
Lit(num, den) == RoundDiv(num * Unit, den)

\* ------------------------------------------------------- special values
Inf == Pow2(FracBits + 16)

NaN == Inf + 1

IsNaN(x) == x = NaN

IsFinite(x) == -Inf < x /\ x < Inf

\* The float32 nearest to the finite grid value x; out of range is +-Inf.
\* Below this every grid value is a float32.
PrecLimit == Pow2(PrecBits)

\* The number of bits |x| has beyond PrecBits (x at least PrecLimit, below Inf).
ExtraBits(a) ==
    CHOOSE k \in 1 .. FracBits + 16 - PrecBits :
        Pow2(PrecBits + k - 1) <= a /\ a < Pow2(PrecBits + k)

F32(x) ==
    LET a  == Abs(x)
        q  == Pow2(ExtraBits(a))
        r  == RoundHalfEven(a, q) * q
    IN  IF a < PrecLimit THEN x
        ELSE IF r >= Inf THEN Sgn(x) * Inf
        ELSE Sgn(x) * r

\* ----------------------------------------------------- float arithmetic
\* a + b, exact on the grid (float64).
Add64(a, b) ==
    IF IsFinite(a) /\ IsFinite(b)
    THEN (IF a + b >= Inf THEN Inf
          ELSE IF a + b <= -Inf THEN -Inf
          ELSE a + b)
    ELSE IF IsNaN(a) \/ IsNaN(b) THEN NaN
    ELSE IF IsFinite(b) THEN a
    ELSE IF IsFinite(a) THEN b
    ELSE IF a = b THEN a ELSE NaN

\* |a| * |b| / Unit for finite a, b, to the nearest grid step (or Inf).
MulMag(A, B) ==
    LET ah == A \div Unit
        al == A % Unit
        bh == B \div Unit
        bl == B % Unit
    IN  IF A = 0 \/ B = 0 THEN 0
        ELSE IF A < 32768 /\ B < 32768 THEN RoundHalfEven(A * B, Unit)
        ELSE IF bh > 0 /\ ah > 65535 \div bh THEN Inf
        ELSE Min(Inf, ah * bh * Unit + ah * bl + al * bh
                      + RoundHalfEven(al * bl, Unit))

\* a * b on the grid (float64).
Mul64(a, b) ==
    IF a = 0 /\ IsFinite(b) THEN 0
    ELSE IF IsFinite(a) /\ IsFinite(b)
         THEN Sgn(a) * Sgn(b) * MulMag(Abs(a), Abs(b))
    ELSE IF IsNaN(a) \/ IsNaN(b) THEN NaN
    ELSE IF a = 0 \/ b = 0 THEN NaN
    ELSE Sgn(a) * Sgn(b) * Inf

\* Long division: the next quotient bits of qr[2]/B, two at a time while j
\* pairs of the FracBits bits are not yet out; qr is <<bits so far, rest>>.
FracDiv(qr, B, j) ==
    LET k == Pow2(Max(0, Min(2, FracBits - 2 * j)))
    IN  <<qr[1] * k + (qr[2] * k) \div B, (qr[2] * k) % B>>

\* |a| / |b| for finite a and b # 0, to the nearest grid step (or Inf).
DivMag(A, B) ==
    LET qi == A \div B
        f0 == FracDiv(<<0, A % B>>, B, 0)
        f1 == FracDiv(f0, B, 1)
        f2 == FracDiv(f1, B, 2)
        f3 == FracDiv(f2, B, 3)
        f4 == FracDiv(f3, B, 4)
        fr == FracDiv(f4, B, 5)
        up == IF 2 * fr[2] > B \/ (2 * fr[2] = B /\ fr[1] % 2 = 1) THEN 1 ELSE 0
    IN  IF qi >= 65536 THEN Inf
        ELSE IF A < 262144 THEN RoundHalfEven(A * Unit, B)
        ELSE Min(Inf, qi * Unit + fr[1] + up)

\* a / b on the grid, with numpy's division by zero (float64).
Div64(a, b) ==
    IF IsNaN(a) \/ IsNaN(b) THEN NaN
    ELSE IF ~IsFinite(a) THEN (IF ~IsFinite(b) THEN NaN
                               ELSE (IF b < 0 THEN -a ELSE a))
    ELSE IF ~IsFinite(b) THEN 0
    ELSE IF b = 0 THEN (IF a = 0 THEN NaN ELSE Sgn(a) * Inf)
    ELSE Sgn(a) * Sgn(b) * DivMag(Abs(a), Abs(b))

\* The float32 value of an already computed float64 (astype, array store).
Cast32(x) ==
    IF -PrecLimit < x /\ x < PrecLimit THEN x
    ELSE IF IsFinite(x) THEN F32(x)
    ELSE x

Add32(a, b) == Cast32(Add64(a, b))

Mul32(a, b) == Cast32(Mul64(a, b))

Div32(a, b) == Cast32(Div64(a, b))

\* np.clip: NaN stays NaN.
Clip(x, lo, hi) == IF IsNaN(x) THEN NaN ELSE Max(lo, Min(x, hi))

\* a % m as Python and numpy compute it for floats (m > 0): C's fmod, whose
\* result has the sign of a, then "+ m" when the remainder is negative.
\* The sum is rounded like every other sum of its precision.
PyMod64(a, m) ==
    IF ~IsFinite(a) THEN NaN
    ELSE LET r == Sgn(a) * (Abs(a) % m)
         IN  IF r < 0 THEN Add64(r, m) ELSE r

PyMod32(a, m) ==
    IF ~IsFinite(a) THEN NaN
    ELSE LET r == Sgn(a) * (Abs(a) % m)
         IN  IF r < 0 THEN Add32(r, m) ELSE r

\* ------------------------------------------------ elementary functions
Pi == Lit(355, 113)

HalfPi == Lit(355, 226)

TwoPi == Lit(710, 113)

\* 2.0 * np.pi as the float32 a float32 operation sees it.
TwoPi32 == F32(TwoPi)

\* The sine of y in [0, pi]: 16y(pi-y) / (5pi^2 - 4y(pi-y)), at most 1.
SinHalf(y) ==
    LET p == (y * (Pi - y)) \div Unit
        d == (5 * ((Pi * Pi) \div Unit)) \div 4 - p
    IN  Min(Unit, (4 * p * Unit) \div d)

\* np.sin: in [-1, 1] for a finite argument, NaN otherwise.
Sin(x) ==
    IF ~IsFinite(x) THEN NaN
    ELSE LET y == x % TwoPi
         IN  IF y <= Pi THEN SinHalf(y) ELSE -SinHalf(y - Pi)

\* np.cos
Cos(x) == IF ~IsFinite(x) THEN NaN ELSE Sin((x % TwoPi) + HalfPi)

\* (2/pi) * arcsin(sin(x)): the triangle wave of x, in [-1, 1].
Tri(x) ==
    IF ~IsFinite(x) THEN NaN
    ELSE LET y == x % TwoPi
             v == IF y <= HalfPi THEN y
                  ELSE IF y <= 3 * HalfPi THEN Pi - y
                  ELSE y - TwoPi
         IN  Clip(RoundDiv(v * Unit, HalfPi), -Unit, Unit)

\* np.tanh: odd, increasing, |tanh x| <= min(|x|, 1), exactly +-1 from 3 on.
Tanh(x) ==
    IF IsNaN(x) THEN NaN
    ELSE LET a   == Abs(x)
             x2  == (a * a) \div Unit
             num == (27 * Unit + x2) \div 4
             den == (27 * Unit + 9 * x2) \div 4
         IN  IF a >= 3 * Unit THEN Sgn(x) * Unit
             ELSE Sgn(x) * Min(Unit, (a * ((num * Unit) \div den)) \div Unit)

\* One bit of a square root: r with bit b set when its square fits in n.
SqrtBit(n, r, b) == IF (r + b) * (r + b) <= n THEN r + b ELSE r

SqrtHigh(n) ==
    SqrtBit(n, SqrtBit(n, SqrtBit(n, SqrtBit(n, SqrtBit(n,
        0, 16384), 8192), 4096), 2048), 1024)

SqrtMid(n) ==
    SqrtBit(n, SqrtBit(n, SqrtBit(n, SqrtBit(n, SqrtBit(n,
        SqrtHigh(n), 512), 256), 128), 64), 32)

\* The integer part of the square root of n, for 0 <= n < 2^30: its 15
\* bits, from the highest down.
ISqrt(n) ==
    SqrtBit(n, SqrtBit(n, SqrtBit(n, SqrtBit(n, SqrtBit(n,
        SqrtMid(n), 16), 8), 4), 2), 1)

\* The square root of the grid value v >= 0: of v / 4^s first, where s is the
\* least scaling that keeps the radicand below 2^30.
SqrtMag(v) ==
    LET lim == Pow2(30 - FracBits)
        s   == CHOOSE k \in 0 .. 8 :
                  /\ v \div Pow2(2 * k) < lim
                  /\ (k = 0 \/ v \div Pow2(2 * k - 2) >= lim)
    IN  Pow2(s) * ISqrt((v \div Pow2(2 * s)) * Unit)

\* np.sqrt
Sqrt(x) ==
    IF IsNaN(x) \/ x < 0 THEN NaN
    ELSE IF x = Inf THEN Inf
    ELSE SqrtMag(x)

\* ------------------------------------------------------ E8 root system
Dim == 8

NumRoots == 240

Axes == 0 .. Dim - 1

\* An 8-vector is a tuple; At(v, a) is numpy's v[a], with a in 0..7.
Vec(F(_)) == <<F(0), F(1), F(2), F(3), F(4), F(5), F(6), F(7)>>

At(v, a) == v[a + 1]

ZeroVec == Vec(LAMBDA a : 0)

\* The float32 sum of an 8-vector's entries, in index order.
Sum8(f) ==
    Add32(Add32(Add32(Add32(Add32(Add32(Add32(f[1], f[2]), f[3]), f[4]),
                            f[5]), f[6]), f[7]), f[8])

\* np.dot(v, w) of two float32 vectors
Dot(v, w) == Sum8(Vec(LAMBDA a : Mul32(At(v, a), At(w, a))))

\* np.linalg.norm(v)
Norm(v) == Cast32(Sqrt(Dot(v, v)))

\* is2 = 1.0 / np.sqrt(2.0)
Is2 == Div64(Unit, Sqrt(2 * Unit))

\* (mask >> b) & 1
Bit(mask, b) == (mask \div Pow2(b)) % 2

\* minus: how many of the mask's 8 bits are set
CountBits(mask) == Cardinality({b \in Axes : Bit(mask, b) = 1})

\* The vector Family A's loop body appends: s0*is2 at i, s1*is2 at j, where
\* sg counts the (s0, s1) pairs in loop order (-1,-1), (-1,1), (1,-1), (1,1).
FamilyAVec(i, j, sg) ==
    LET s0 == IF sg \div 2 = 0 THEN -1 ELSE 1
        s1 == IF sg % 2 = 0 THEN -1 ELSE 1
    IN  Vec(LAMBDA a : IF a = i THEN Cast32(s0 * Is2)
                       ELSE IF a = j THEN Cast32(s1 * Is2)
                       ELSE 0)

\* vals of Family B's loop body: -0.5 where the mask's bit is set, 0.5 elsewhere
MaskVals(mask) == Vec(LAMBDA b : IF Bit(mask, b) = 1 THEN -(Unit \div 2)
                                 ELSE Unit \div 2)

\* vals / n when n > 0, as float32
FamilyBVec(mask) ==
    LET vals == MaskVals(mask)
        n    == Norm(vals)
    IN  IF n > 0 THEN Vec(LAMBDA b : Div32(At(vals, b), n)) ELSE vals

\* The generator before its first loop iteration.
GenInit == [pc |-> "A", i |-> 0, j |-> 1, sg |-> 0, mask |-> 0, roots |-> <<>>]

\* One iteration of Family A's innermost loop, then the loop counters' advance.
GenStepA(g) ==
    LET rs == Append(g.roots, FamilyAVec(g.i, g.j, g.sg))
    IN  IF g.sg < 3 THEN [g EXCEPT !.roots = rs, !.sg = g.sg + 1]
        ELSE IF g.j < Dim - 1
             THEN [g EXCEPT !.roots = rs, !.sg = 0, !.j = g.j + 1]
        ELSE IF g.i + 2 <= Dim - 1
             THEN [g EXCEPT !.roots = rs, !.sg = 0, !.i = g.i + 1, !.j = g.i + 2]
        ELSE [g EXCEPT !.roots = rs, !.pc = "B"]

\* A parity test that keeps the odd masks.
KeepsOddMask(mask) == CountBits(mask) % 2 = 1

\* The parity test of Family B's loop body.
KeepsMask(mask) == CountBits(mask) % 2 = 0

\* The early exit of Family B's loop.
StopsAt(n) == n = NumRoots

\* One iteration of the loop over the 256 masks.
GenStepB(g) ==
    IF ~KeepsMask(g.mask)
    THEN (IF g.mask = 255 THEN [g EXCEPT !.pc = "stack"]
          ELSE [g EXCEPT !.mask = g.mask + 1])
    ELSE LET rs == Append(g.roots, FamilyBVec(g.mask))
         IN  IF StopsAt(Len(rs)) \/ g.mask = 255
             THEN [g EXCEPT !.roots = rs, !.pc = "stack"]
             ELSE [g EXCEPT !.roots = rs, !.mask = g.mask + 1]

\* np.stack and the shape assertion.
GenStepStack(g) ==
    IF Len(g.roots) = NumRoots THEN [g EXCEPT !.pc = "done"]
    ELSE [g EXCEPT !.pc = "fail"]

\* The (i, j) the two outer loops of Family A visit, and their loop order.
AxisPairs == {p \in Axes \X Axes : p[1] < p[2]}

PairBefore(p, q) == p[1] < q[1] \/ (p[1] = q[1] /\ p[2] < q[2])

\* The pair of the n-th iteration (from 0) of the two outer loops.
PairAt(n) ==
    CHOOSE p \in AxisPairs :
        Cardinality({q \in AxisPairs : PairBefore(q, p)}) = n

\* The list after Family A's loops: four vectors for each pair.
FamilyA ==
    [k \in 1 .. 4 * Cardinality(AxisPairs) |->
        FamilyAVec(PairAt((k - 1) \div 4)[1], PairAt((k - 1) \div 4)[2],
                   (k - 1) % 4)]

\* The masks whose vector Family B's loop appends when it is not cut short.
KeptMasks == {m \in 0 .. 255 : KeepsMask(m)}

\* The n-th kept mask (from 0) in the loop's ascending order.
MaskAt(n) ==
    CHOOSE m \in KeptMasks : Cardinality({x \in KeptMasks : x < m}) = n

\* How many vectors Family B's loop appends: it breaks right after the
\* append that brings the list to NumRoots entries.
FamilyBCount ==
    LET room == NumRoots - Len(FamilyA)
    IN  IF 1 <= room /\ room <= Cardinality(KeptMasks)
        THEN room ELSE Cardinality(KeptMasks)

FamilyB == [k \in 1 .. FamilyBCount |-> FamilyBVec(MaskAt(k - 1))]

\* generate_e8_roots(): the (240, 8) array, as a sequence of vectors.
generate_e8_roots == FamilyA \o FamilyB

\* ------------------------------------------------------------ the engine
\* Bounds of the model: nodes per engine (num_nodes).
NumNodes == 2

RootsPerNode == 12

Nodes == 0 .. NumNodes - 1

\* A per-node array (_dphi, _damp, qs, ...): the sequence of its NumNodes
\* values, node i at position i + 1.
PerNode(f) == SubSeq(f, 1, NumNodes)

NodeAt(arr, i) == arr[i + 1]

\* self.roots: computed once in __init__ and never written again.
E8Roots == generate_e8_roots

\* Macros(): the dataclass defaults.
DefaultMacros ==
    [CosmicDepth  |-> 5,
     PhiDrift     |-> Lit(2, 100),
     CoxeterPhase |-> 0,
     EntropyBloom |-> Lit(2, 100),
     TernaryBias  |-> Lit(10, 100),
     PhaseGain    |-> Lit(25, 100),
     AmpGain      |-> Lit(20, 100),
     EnergyFlow   |-> Unit,
     SpatialWarp  |-> 0]

MacroNames == DOMAIN DefaultMacros

\* A sampling whose offset is a multiple of the stride.
ChooseSparseAligned(i) ==
    LET stride == NumRoots \div RootsPerNode
        offset == (i * stride) % NumRoots
    IN  SubSeq([k \in 1 .. RootsPerNode |->
                    (offset + (k - 1) * stride) % NumRoots], 1, RootsPerNode)

\* _choose_sparse_roots_per_node: node i's indices, in order.
ChooseSparse(i) ==
    LET stride == NumRoots \div RootsPerNode
        offset == (i * 17) % NumRoots
    IN  SubSeq([k \in 1 .. RootsPerNode |->
                    (offset + (k - 1) * stride) % NumRoots], 1, RootsPerNode)

\* phi = (1 + np.sqrt(5)) * 0.5
GoldenPhi == Mul64(Add64(Unit, Sqrt(5 * Unit)), Unit \div 2)

RECURSIVE PhiPow(_)
\* phi ** e
PhiPow(e) ==
    IF e = 0 THEN Unit
    ELSE IF e > 0 THEN Mul64(GoldenPhi, PhiPow(e - 1))
    ELSE Div64(PhiPow(e + 1), GoldenPhi)

\* _base_freq[i] = 110.0 * (ratios / np.max(ratios)).astype(float32)[i]:
\* the largest ratio is the last one.
BaseFreq(i) ==
    LET half == NumNodes \div 2
    IN  Mul32(110 * Unit,
              Cast32(Div64(PhiPow(i - half), PhiPow(NumNodes - 1 - half))))

\* max(1, int(round(sample_rate / control_rate)))
SamplesPerControl(sr, cr) == Max(1, RoundHalfEven(sr, cr))

\* np.random.default_rng(seed): the generator's state after seeding.
SeedRng(seed) == seed % 4096

\* The generator's state after one more draw.
NextRng(r) == (r * 1229 + 1) % 4096

RECURSIVE RngAfter(_, _)
RngAfter(r, n) == IF n = 0 THEN r ELSE NextRng(RngAfter(r, n - 1))

\* The double in [lo, hi) the generator's state r stands for.
UniformAt(lo, hi, r) == Add64(lo, Mul64(hi - lo, (r * Unit) \div 4096))

\* One generator for the whole module, moved on by every engine's ticks.
RngShared(s) == SeedRng(eng[1].steps + eng[2].steps)

\* self.rng: the generator an engine draws from is its own.
RngOf(s) == s.rng

\* rng.uniform(lo, hi, size=8) from state r: the 8 draws, in order.
Uniform8(lo, hi, r) == Vec(LAMBDA a : UniformAt(lo, hi, RngAfter(r, a + 1)))

\* E8FractalPowerModule(num_nodes, sample_rate, control_rate, seed)
NewEngine(sr, cr, seed) ==
    [sample_rate  |-> sr,
     control_rate |-> cr,
     macros       |-> DefaultMacros,
     rng          |-> SeedRng(seed),
     theta        |-> ZeroVec,
     omega        |-> ZeroVec,
     qs           |-> PerNode([n \in 1 .. NumNodes |-> ZeroVec]),
     sparse_idx   |-> PerNode([n \in 1 .. NumNodes |-> ChooseSparse(n - 1)]),
     dphi         |-> PerNode([n \in 1 .. NumNodes |-> 0]),
     damp         |-> PerNode([n \in 1 .. NumNodes |-> Unit]),
     morph        |-> PerNode([n \in 1 .. NumNodes |-> 0]),
     node_phase   |-> PerNode([n \in 1 .. NumNodes |-> 0]),
     base_freq    |-> PerNode([n \in 1 .. NumNodes |-> BaseFreq(n - 1)]),
     samples_per_control |-> SamplesPerControl(sr, cr),
     sample_counter      |-> 0,
     driven       |-> PerNode([n \in 1 .. NumNodes |-> ZeroVec]),
     steps        |-> 0,
     ticks        |-> 0]

\* QutritState.soft_project(r_max) of the vector r
soft_project(r, r_max) ==
    LET n2 == Dot(r, r)
        n  == Sqrt(n2)
        sc == Div64(Mul64(r_max, Tanh(Div64(n, r_max))), n)
    IN  IF n2 <= Mul64(r_max, r_max) THEN r
        ELSE Vec(LAMBDA a : Mul32(At(r, a), sc))

\* E8Torus.advance(dt): theta = (theta + omega * dt) % (2.0 * np.pi)
advance(theta, omega, dt) ==
    Vec(LAMBDA a : PyMod32(Add32(At(theta, a), Mul32(At(omega, a), dt)),
                           TwoPi32))

\* E8Torus.phases(roots)[k]: the k-th root's phase (k from 0)
PhaseOf(theta, k) == Dot(E8Roots[k + 1], theta)

\* if e > 1e-6
BloomOn(e) == e > RoundDiv(Unit, 1000000)

\* _apply_torus_macros: the engine with omega, theta and rng updated
apply_torus_macros(s) ==
    LET m    == s.macros
        base == Vec(LAMBDA a : Mul32(m.PhiDrift,
                        Add32(Lit(6, 10), Mul32(Lit(1, 10), a * Unit))))
        cp   == m.CoxeterPhase
        th0  == Cast32(PyMod64(Add64(At(s.theta, 0),
                          Mul64(Lit(1, 1000), Sin(cp))), TwoPi))
        th1  == Cast32(PyMod64(Add64(At(s.theta, 1),
                          Mul64(Lit(1, 1000), Cos(cp))), TwoPi))
        skew == Vec(LAMBDA a : IF a = 0 THEN th0
                               ELSE IF a = 1 THEN th1
                               ELSE At(s.theta, a))
        e    == m.EntropyBloom
        u1   == Uniform8(Lit(-5, 100), Lit(5, 100), RngOf(s))
        u2   == Uniform8(Lit(-2, 1000), Lit(2, 1000), RngAfter(RngOf(s), Dim))
    IN  IF BloomOn(e)
        THEN [s EXCEPT
                !.omega = Vec(LAMBDA a :
                    Add32(At(base, a), Mul32(e, Cast32(At(u1, a))))),
                !.theta = Vec(LAMBDA a :
                    PyMod32(Add32(At(skew, a), Mul32(e, Cast32(At(u2, a)))),
                            TwoPi32)),
                !.rng = RngAfter(RngOf(s), 2 * Dim)]
        ELSE [s EXCEPT !.omega = base, !.theta = skew]

\* ph = ph_all[idx]: the phases of the roots a node is coupled to, in order
NodePhases(theta, idx) ==
    SubSeq([k \in 1 .. Len(idx) |-> PhaseOf(theta, idx[k])], 1, Len(idx))

RECURSIVE SumSin(_, _)
\* np.sin(ph).sum() over the first n phases
SumSin(ph, n) ==
    IF n = 0 THEN 0 ELSE Add32(SumSin(ph, n - 1), Sin(ph[n]))

RECURSIVE SumCos(_, _)
\* np.cos(ph).sum()
SumCos(ph, n) ==
    IF n = 0 THEN 0 ELSE Add32(SumCos(ph, n - 1), Cos(ph[n]))

\* _dphi[i] = phase_gain * s * norm
NodeDphi(phase_gain, sn, norm) == Cast32(Mul64(Mul64(phase_gain, sn), norm))

\* _damp[i] = np.clip(1.0 + amp_gain * c * norm, 0.0, 4.0)
NodeDamp(amp_gain, c, norm) ==
    Cast32(Clip(Add64(Unit, Mul64(Mul64(amp_gain, c), norm)), 0, 4 * Unit))

\* The node's state vector after the three "+=" of the tick.
DriveQutrit(r, theta, dt, bias) ==
    LET lam    == Lit(8, 10)
        half   == Unit \div 2
        drive0 == Add64(Mul64(half, Sin(At(theta, 0))),
                        Mul64(half, Sin(At(theta, 1))))
        drive1 == Add64(Mul64(half, Cos(At(theta, 2))),
                        Mul64(half, Cos(At(theta, 3))))
        hb     == Mul64(half, bias)
        d0     == Add64(Add64(Mul64(-lam, At(r, 0)), drive0), bias)
        d3     == Add64(Add64(Mul64(-lam, At(r, 3)), drive1), -hb)
        d7     == Add64(Add64(Mul64(-lam, At(r, 7)),
                        Mul64(Unit \div 4, Add64(drive0, drive1))), -hb)
    IN  Vec(LAMBDA a :
            IF a = 0 THEN Add32(At(r, 0), Mul64(dt, d0))
            ELSE IF a = 3 THEN Add32(At(r, 3), Mul64(dt, d3))
            ELSE IF a = 7 THEN Add32(At(r, 7), Mul64(dt, d7))
            ELSE At(r, a))

\* _morph[i] = clip(0.5 * sqrt(r[0]**2 + r[3]**2 + r[7]**2), 0, 1)
NodeMorph(r) ==
    LET mag == Sqrt(Add32(Add32(Mul32(At(r, 0), At(r, 0)),
                                Mul32(At(r, 3), At(r, 3))),
                          Mul32(At(r, 7), At(r, 7))))
    IN  Cast32(Clip(Mul64(Unit \div 2, mag), 0, Unit))

\* The radius every node state is projected to.
RMax == Lit(12, 10)

\* The per-node part of control_step: couplings, qutrit drive, projection.
\* ph[n] are node n's root phases, driven[n] its vector before projection.
StepNodes(s, t, th, ph, driven) ==
    LET m    == s.macros
        norm == [n \in 1 .. NumNodes |-> Lit(1, Max(1, Len(s.sparse_idx[n])))]
    IN  [t EXCEPT
           !.theta = th,
           !.dphi  = PerNode([n \in 1 .. NumNodes |->
                NodeDphi(m.PhaseGain, SumSin(ph[n], Len(ph[n])), norm[n])]),
           !.damp  = PerNode([n \in 1 .. NumNodes |->
                NodeDamp(m.AmpGain, SumCos(ph[n], Len(ph[n])), norm[n])]),
           !.morph = PerNode([n \in 1 .. NumNodes |-> NodeMorph(driven[n])]),
           !.qs    = PerNode([n \in 1 .. NumNodes |-> soft_project(driven[n], RMax)]),
           !.driven = driven,
           !.steps = s.steps + 1]

\* A tick whose bias grows with the node's position.
StepAtOwnBias(s, t, th, dt) ==
    StepNodes(s, t, th,
        PerNode([n \in 1 .. NumNodes |-> NodePhases(th, s.sparse_idx[n])]),
        PerNode([n \in 1 .. NumNodes |->
            DriveQutrit(s.qs[n], th, dt,
                        Mul64(n * Unit, s.macros.TernaryBias))]))

\* control_step after the torus has advanced to th.
StepAt(s, t, th, dt) ==
    StepNodes(s, t, th,
        PerNode([n \in 1 .. NumNodes |-> NodePhases(th, s.sparse_idx[n])]),
        PerNode([n \in 1 .. NumNodes |->
            DriveQutrit(s.qs[n], th, dt, s.macros.TernaryBias)]))

\* control_step after the macros have been applied to the torus (engine t).
StepFrom(s, t, dt) == StepAt(s, t, advance(t.theta, t.omega, dt), dt)

\* control_step(): one control-rate update of the engine s.  driven keeps
\* each node's vector as it is handed to soft_project; steps counts the calls.
control_step(s) ==
    StepFrom(s, apply_torus_macros(s), Lit(1, s.control_rate))

\* The scheduler's reaction to a full counter: reset it and tick.
FireTick(s) == [control_step(s) EXCEPT !.sample_counter = 0,
                                       !.ticks = s.ticks + 1]

\* The step of a scheduler that takes the whole request at once.
StepSizeWhole(s, remaining) == remaining

\* step = min(self._samples_per_control - self._sample_counter, remaining)
StepSize(s, remaining) ==
    Min(s.samples_per_control - s.sample_counter, remaining)

RECURSIVE process_control_for_samples(_, _)
\* process_control_for_samples(num_samples): the while loop, one pass each
process_control_for_samples(s, remaining) ==
    IF remaining <= 0 THEN s
    ELSE LET step == StepSize(s, remaining)
             c    == s.sample_counter + step
             s1   == [s EXCEPT !.sample_counter = c]
         IN  IF c >= s.samples_per_control
             THEN process_control_for_samples(FireTick(s1), remaining - step)
             ELSE process_control_for_samples(s1, remaining - step)

\* ------------------------------------------------------------- rendering
\* _morph_wave(phase, morph): (1 - morph) * sin + morph * triangle
morph_wave(phase, morph) ==
    Add32(Mul32(Add32(Unit, -morph), Sin(phase)), Mul32(morph, Tri(phase)))

\* freq[n] = np.clip(_base_freq[n] + _dphi[n] / (2 pi), 1.0, 20000.0)
NodeFreq(s, n) ==
    Cast32(Clip(Add32(NodeAt(s.base_freq, n), Div32(NodeAt(s.dphi, n), TwoPi)),
                Unit, 20000 * Unit))

\* phase_inc[n] = k * freq[n], with k = (2 pi) / sample_rate
PhaseInc(s, n) == Mul32(Div64(TwoPi, s.sample_rate * Unit), NodeFreq(s, n))

\* sig[n, t] = _morph_wave(phase_t[n, t], morph[n]) * amp[n]
NodeSig(s, n, t, base_gain) ==
    LET phase == Add32(NodeAt(s.node_phase, n), Mul32(PhaseInc(s, n), t * Unit))
        amp   == Mul32(base_gain, NodeAt(s.damp, n))
    IN  Mul32(morph_wave(phase, NodeAt(s.morph, n)), amp)

RECURSIVE MixAt(_, _, _, _)
\* mix[t] = sig.sum(axis=0)[t], over the first n nodes
MixAt(s, n, t, base_gain) ==
    IF n = 0 THEN 0
    ELSE Add32(MixAt(s, n - 1, t, base_gain), NodeSig(s, n - 1, t, base_gain))

\* The soft clip that ends render: np.tanh of the scaled channel.
SoftClip(x) == Cast32(Tanh(x))

\* One channel's sample: tanh((chan_mix * mix[t]) * gain)
Sample(chan_mix, mix, gain) == SoftClip(Mul32(Mul32(chan_mix, mix), gain))

\* Steps 2.. of render on the engine c the scheduler left: the engine
\* afterwards and the two channels, as sequences of N samples.
Synth(c, N, base_gain) ==
    LET pan   == Add64(Unit \div 2, Mul64(Unit \div 2, Sin(At(c.theta, 4))))
        left  == Add64(Unit, -pan)
        gain  == c.macros.EnergyFlow
        mix   == SubSeq([t \in 1 .. N |-> MixAt(c, NumNodes, t - 1, base_gain)],
                        1, N)
        after == [c EXCEPT !.node_phase = PerNode([n \in 1 .. NumNodes |->
                     PyMod32(Add32(c.node_phase[n],
                                   Mul32(PhaseInc(c, n - 1), N * Unit)), TwoPi32)])]
    IN  [eng |-> after,
         L   |-> SubSeq([t \in 1 .. N |-> Sample(left, mix[t], gain)], 1, N),
         R   |-> SubSeq([t \in 1 .. N |-> Sample(pan, mix[t], gain)], 1, N)]

\* A render whose scheduler starts every call from an empty counter.
render_from_zero(s, N, base_gain) ==
    Synth(process_control_for_samples([s EXCEPT !.sample_counter = 0], N),
          N, base_gain)

RECURSIVE RenderChunks(_, _, _, _, _)
\* A renderer that synthesizes each scheduler step's samples with the
\* modulation values of that moment, and ticks in between.
RenderChunks(s, remaining, base_gain, L, R) ==
    IF remaining <= 0 THEN [eng |-> s, L |-> L, R |-> R]
    ELSE LET step == StepSize(s, remaining)
             part == Synth(s, step, base_gain)
             c    == s.sample_counter + step
             s1   == [part.eng EXCEPT !.sample_counter = c]
             s2   == IF c >= s.samples_per_control THEN FireTick(s1) ELSE s1
         IN  RenderChunks(s2, remaining - step, base_gain,
                          L \o part.L, R \o part.R)

\* A render that sub-chunks the block at the control ticks.
render_subchunked(s, N, base_gain) == RenderChunks(s, N, base_gain, <<>>, <<>>)

\* render(num_samples, base_gain) on engine s
render(s, N, base_gain) == Synth(process_control_for_samples(s, N), N, base_gain)

\* type(getattr(self.macros, k))(v): int(v) truncates for the one int field,
\* float(v) keeps every other value.
Convert(k, v) ==
    IF k = "CosmicDepth" THEN Sgn(v) * (Abs(v) \div Unit) ELSE v

\* A set_macros that rebuilds the macro set from its defaults.
set_macros_rebuilt(s, ov) ==
    [s EXCEPT !.macros = [k \in MacroNames |->
        IF k \in DOMAIN ov THEN Convert(k, ov[k]) ELSE DefaultMacros[k]]]

\* set_macros(**overrides): ov maps the given names to the given values
set_macros(s, ov) ==
    [s EXCEPT !.macros = [k \in MacroNames |->
        IF k \in DOMAIN ov THEN Convert(k, ov[k]) ELSE s.macros[k]]]

\* ------------------------------------------------------ the state machine
Engines == {1, 2}

\* Bounds of the model: calls per engine, samples per render call, samples
\* an engine renders in the two-engine runs.
MaxCalls == 3

MaxN == 2

MaxTotal == 3

\* <<sample_rate, control_rate>> of the engines built: 0.5, 2.5 and 3
\* samples per control period before rounding.
RatePairs == {<<2, 4>>, <<10, 4>>, <<12, 4>>}

Seeds == {3, 7}

\* base_gain of the render calls made
Gains == {Lit(2, 10), Inf}

\* The keyword bundles set_macros is called with; Bogus is no macro.
Overrides ==
    << [EnergyFlow |-> 0],
       [EnergyFlow |-> Inf, AmpGain |-> Inf, PhaseGain |-> -Inf,
        TernaryBias |-> Inf],
       [AmpGain |-> 0, PhaseGain |-> 0, EntropyBloom |-> 0],
       [PhiDrift |-> Lit(-2, 1000), EntropyBloom |-> 0, Bogus |-> Unit],
       [TernaryBias |-> 8 * Unit, CosmicDepth |-> Lit(75, 10)],
       [PhiDrift |-> Inf] >>

\* The bundles used when two engines run side by side.
PairOverrides == {4}

NoOutput == [L |-> <<>>, R |-> <<>>]

Call(op, n, g, k) == [op |-> op, n |-> n, g |-> g, k |-> k]

\* e = E8FractalPowerModule(NumNodes, sr, cr, seed)
Built(sr, cr, seed) == <<Call("new", seed, sr, cr)>>

\* One engine of each kind of rate, the second a twin of the first.
Init ==
    /\ \E rp \in RatePairs :
          /\ eng = [e \in Engines |-> NewEngine(rp[1], rp[2], 3)]
          /\ hist = [e \in Engines |-> Built(rp[1], rp[2], 3)]
    /\ out = [e \in Engines |-> NoOutput]
    /\ gen = GenInit

\* Two engines of the same rates, each with a seed of its own.
InitPair ==
    /\ \E s2 \in Seeds :
          /\ eng = [e \in Engines |->
                       NewEngine(10, 4, IF e = 1 THEN 3 ELSE s2)]
          /\ hist = [e \in Engines |->
                       Built(10, 4, IF e = 1 THEN 3 ELSE s2)]
    /\ out = [e \in Engines |-> NoOutput]
    /\ gen = GenInit

\* The samples engine e has rendered so far.
RECURSIVE Rendered(_)
Rendered(h) ==
    IF h = <<>> THEN 0
    ELSE (IF Head(h).op = "render" THEN Head(h).n ELSE 0) + Rendered(Tail(h))

\* e.set_macros(**Overrides[k])
SetMacros(e, k) ==
    /\ Len(hist[e]) <= MaxCalls
    /\ eng' = [eng EXCEPT ![e] = set_macros(eng[e], Overrides[k])]
    /\ hist' = [hist EXCEPT ![e] = Append(@, Call("set_macros", 0, 0, k))]
    /\ UNCHANGED <<out, gen>>

\* L, R = e.render(N, base_gain)
Render(e, N, base_gain) ==
    /\ Len(hist[e]) <= MaxCalls
    /\ LET r == render(eng[e], N, base_gain)
       IN  /\ eng' = [eng EXCEPT ![e] = r.eng]
           /\ out' = [out EXCEPT ![e] = [L |-> r.L, R |-> r.R]]
    /\ hist' = [hist EXCEPT ![e] = Append(@, Call("render", N, base_gain, 0))]
    /\ UNCHANGED gen

\* e.control_step()
ControlStep(e) ==
    /\ Len(hist[e]) <= MaxCalls
    /\ eng' = [eng EXCEPT ![e] = control_step(eng[e])]
    /\ hist' = [hist EXCEPT ![e] = Append(@, Call("control_step", 0, 0, 0))]
    /\ UNCHANGED <<out, gen>>

\* The calls a client makes on one engine.
Next ==
    \/ \E k \in 1 .. Len(Overrides) : SetMacros(1, k)
    \/ \E N \in 0 .. MaxN, g \in Gains : Render(1, N, g)
    \/ ControlStep(1)

Spec == Init /\ [][Next]_vars

\* set_macros and render calls on two engines, in any interleaving.
PairSetMacros(e, k) == SetMacros(e, k)

PairRender(e, N) ==
    /\ Rendered(hist[e]) + N <= MaxTotal
    /\ Render(e, N, Lit(2, 10))

NextPair ==
    \/ \E e \in Engines, k \in PairOverrides : PairSetMacros(e, k)
    \/ \E e \in Engines, N \in 1 .. MaxTotal : PairRender(e, N)

SpecPair == InitPair /\ [][NextPair]_vars

\* generate_e8_roots(), one loop iteration at a time.
GenA ==
    /\ gen.pc = "A"
    /\ gen' = GenStepA(gen)
    /\ UNCHANGED <<eng, out, hist>>

GenB ==
    /\ gen.pc = "B"
    /\ gen' = GenStepB(gen)
    /\ UNCHANGED <<eng, out, hist>>

GenStack ==
    /\ gen.pc = "stack"
    /\ gen' = GenStepStack(gen)
    /\ UNCHANGED <<eng, out, hist>>

NextRoots == GenA \/ GenB \/ GenStack

SpecRoots == Init /\ [][NextRoots]_vars

\* ------------------------------------------------------------- properties
Last(h) == h[Len(h)]

\* How many calls of the kind op the history h holds.
CountOp(h, op) == Cardinality({i \in 1 .. Len(h) : h[i].op = op})

\* The position of the first render call of h (past its end when none).
FirstRender(h) ==
    IF CountOp(h, "render") = 0 THEN Len(h) + 1
    ELSE CHOOSE i \in 1 .. Len(h) :
            /\ h[i].op = "render"
            /\ \A j \in 1 .. i - 1 : h[j].op # "render"

\* The calls before the first render: construction and macro settings.
Setup(h) == SubSeq(h, 1, FirstRender(h) - 1)

\* The calls from the first render on.
Chunks(h) == SubSeq(h, FirstRender(h), Len(h))

OnlyRenders(c) == \A i \in 1 .. Len(c) : c[i].op = "render"

\* Engine a rendered in one call what engine b rendered in chunks, after the
\* same construction and the same macro settings.
OneCallVersusChunks(a, b) ==
    /\ Setup(hist[a]) = Setup(hist[b])
    /\ Len(Chunks(hist[a])) = 1
    /\ OnlyRenders(Chunks(hist[b]))
    /\ Rendered(hist[a]) = Rendered(hist[b])

\* C1: an engine that renders N samples in one call and a twin that renders
\* them in chunks fire the same number of control ticks and end with the same
\* torus angles and velocities, the same node-state vectors and the same
\* _sample_counter.
ChunkingIndependent ==
    \A a, b \in Engines :
        OneCallVersusChunks(a, b) =>
            /\ eng[a].ticks = eng[b].ticks
            /\ eng[a].theta = eng[b].theta
            /\ eng[a].omega = eng[b].omega
            /\ eng[a].qs = eng[b].qs
            /\ eng[a].sample_counter = eng[b].sample_counter

\* One engine rendered 3 samples at once, its twin in several calls, and a
\* control tick fired.
ChunkingWitness ==
    \E a, b \in Engines :
        /\ OneCallVersusChunks(a, b)
        /\ Len(Chunks(hist[b])) >= 2
        /\ eng[a].ticks >= 1
        /\ eng[b].sample_counter > 0

\* C2: after render calls totalling S samples on a fresh engine, exactly
\* floor(S / samples_per_control) control ticks have fired, each with exactly
\* one control_step, and _sample_counter is S mod samples_per_control, below
\* samples_per_control; 48000 samples at rates 48000 and 1000 are 1000 ticks.
TickAccounting ==
    /\ \A e \in Engines :
          LET s   == eng[e]
              S   == Rendered(hist[e])
              spc == Max(1, RoundHalfEven(s.sample_rate, s.control_rate))
          IN  /\ s.samples_per_control = spc
              /\ s.ticks = S \div spc
              /\ s.steps = s.ticks + CountOp(hist[e], "control_step")
              /\ s.sample_counter = S % spc
              /\ 0 <= s.sample_counter /\ s.sample_counter < spc
    /\ SamplesPerControl(48000, 1000) = 48
    /\ 48000 \div SamplesPerControl(48000, 1000) = 1000

\* Several render calls fired two ticks and left a partial period behind.
TickWitness ==
    \E e \in Engines :
        /\ CountOp(hist[e], "render") >= 2
        /\ eng[e].ticks >= 2
        /\ eng[e].sample_counter > 0

InUnitRange(x) == -Unit <= x /\ x <= Unit

\* C3: every sample of both channels a render call returns lies in [-1, 1],
\* for any macro values and any base_gain.
OutputBounded ==
    \A e \in Engines :
        /\ \A t \in 1 .. Len(out[e].L) : InUnitRange(out[e].L[t])
        /\ \A t \in 1 .. Len(out[e].R) : InUnitRange(out[e].R[t])

\* C4: two engines built alike and given the same calls are in identical
\* states and have returned identical arrays, after every call.
Deterministic ==
    \A a, b \in Engines :
        hist[a] = hist[b] => eng[a] = eng[b] /\ out[a] = out[b]

\* Both engines were given the same three calls, the random source was drawn
\* from and samples were returned.
DeterministicWitness ==
    /\ hist[1] = hist[2]
    /\ Len(hist[1]) >= 3
    /\ eng[1].rng # SeedRng(Head(hist[1]).n)
    /\ CountOp(hist[1], "set_macros") >= 1
    /\ Len(out[2].L) >= 1

\* The axes where the vector v is not zero, and where it is negative.
Support(v) == {a \in Axes : At(v, a) # 0}

Negatives(v) == {a \in Axes : At(v, a) < 0}

\* The bit mask of a sign pattern: bit a is set when entry a is negative.
SignMask(v) ==
    LET bit(a) == IF At(v, a) < 0 THEN 2 ^ a ELSE 0
    IN  bit(0) + bit(1) + bit(2) + bit(3) + bit(4) + bit(5) + bit(6) + bit(7)

\* m is 1/sqrt(2) to the last grid step: 2 m^2 = 1.
IsInvSqrt2(m) ==
    /\ 2 * (m - 1) * (m - 1) < Unit * Unit
    /\ Unit * Unit < 2 * (m + 1) * (m + 1)

\* v has one magnitude in all 8 entries and norm 1 to the last grid step.
IsHalfPattern(v) ==
    /\ \A a \in Axes : Abs(At(v, a)) = Abs(At(v, 0))
    /\ Abs(Norm(v) - Unit) <= 1

\* The Family A vectors of the axis pair i < j among the first 112 roots.
PairRoots(roots, i, j) ==
    {p \in 1 .. 112 : Support(roots[p]) = {i, j}}

\* C5: generate_e8_roots returns exactly 240 vectors; the first 112 are, for
\* every axis pair i < j, the four vectors with two nonzero entries of
\* magnitude 1/sqrt(2) at i and j; the other 128 are the sign patterns with
\* an even number of negative entries, in ascending mask order and of unit
\* norm; the stop at 240 cuts off no even mask and the assertion holds.
RootsContract ==
    /\ gen.pc # "fail"
    /\ gen.pc \in {"stack", "done"} =>
          \A m \in gen.mask + 1 .. 255 :
              Cardinality({b \in Axes : (m \div 2 ^ b) % 2 = 1}) % 2 = 1
    /\ gen.pc = "done" =>
          LET roots == gen.roots
          IN  /\ Len(roots) = 240
              /\ \A p \in 1 .. 112 :
                    /\ Cardinality(Support(roots[p])) = 2
                    /\ \A a \in Support(roots[p]) :
                          IsInvSqrt2(Abs(At(roots[p], a)))
              /\ \A i, j \in Axes : i < j =>
                    /\ Cardinality(PairRoots(roots, i, j)) = 4
                    /\ Cardinality({Negatives(roots[p]) :
                                       p \in PairRoots(roots, i, j)}) = 4
              /\ \A p \in 113 .. 240 :
                    /\ IsHalfPattern(roots[p])
                    /\ Cardinality(Negatives(roots[p])) % 2 = 0
              /\ \A p \in 113 .. 239 :
                    SignMask(roots[p]) < SignMask(roots[p + 1])

\* The generator has returned its array.
RootsWitness ==
    /\ gen.pc = "done"
    /\ Len(gen.roots) = 240
    /\ gen.mask = 255
    /\ gen.roots = E8Roots

AllZero(chan) == \A t \in 1 .. Len(chan) : chan[t] = 0

\* C6: while EnergyFlow is 0, every sample of both channels of a render call
\* is 0, whatever the sample count, base_gain, other macros and history.
SilentAtZeroFlow ==
    \A e \in Engines :
        (eng[e].macros.EnergyFlow = 0 /\ Last(hist[e]).op = "render") =>
            AllZero(out[e].L) /\ AllZero(out[e].R)

\* AmpGain, PhaseGain and EntropyBloom of engine s are all 0.
ZeroGains(s) ==
    /\ s.macros.AmpGain = 0
    /\ s.macros.PhaseGain = 0
    /\ s.macros.EntropyBloom = 0

\* C7: a control_step taken with AmpGain = PhaseGain = EntropyBloom = 0
\* leaves _damp = 1.0 and _dphi = 0.0 exactly at every node.
ZeroGainsNeutral ==
    [][\A e \in Engines :
          (ZeroGains(eng[e]) /\ eng'[e].steps > eng[e].steps) =>
              \A n \in 1 .. NumNodes :
                  eng'[e].damp[n] = Unit /\ eng'[e].dphi[n] = 0]_vars

\* The call that takes hist[e] to its next value is set_macros.
SetMacrosCall(e) ==
    /\ Len(hist'[e]) = Len(hist[e]) + 1
    /\ Last(hist'[e]).op = "set_macros"

AnglesPeriodic ==
    \A e \in Engines : \A a \in Axes :
        0 <= At(eng[e].theta, a) /\ At(eng[e].theta, a) < TwoPi

\* C10: soft_project never increases the norm, leaves it at most r_max (up to
\* a tolerance of two grid steps) and changes nothing when the norm is at most
\* r_max already; so after every control_step every node's vector has norm at
\* most 1.2.
ProjectionContract ==
    \A e \in Engines : \A n \in 1 .. NumNodes :
        LET before == eng[e].driven[n]
            after  == eng[e].qs[n]
        IN  /\ Norm(after) <= Norm(before)
            /\ Norm(after) <= Lit(12, 10) + 2
            /\ Norm(before) <= Lit(12, 10) => after = before

\* The indices a node is coupled to, as a set.
IndexSet(idx) == {idx[k] : k \in 1 .. Len(idx)}

\* Node n of an engine holds the 12 indices (17 n + 20 k) mod 240, k = 0..11,
\* in that order, all of them roots and no two the same.
StridedIndices(idx, n) ==
    /\ Len(idx) = 12
    /\ \A k \in 1 .. 12 : idx[k] = (17 * n + 20 * (k - 1)) % 240
    /\ \A k \in 1 .. 12 : idx[k] \in 0 .. 239
    /\ Cardinality(IndexSet(idx)) = 12

\* C11 as stated: every node holds its strided indices at all times, and any
\* two nodes share some but not all of their indices.
SparsePartlyOverlapping ==
    \A e \in Engines :
        /\ \A n \in Nodes : StridedIndices(NodeAt(eng[e].sparse_idx, n), n)
        /\ \A m, n \in Nodes : m # n =>
              LET common == IndexSet(NodeAt(eng[e].sparse_idx, m))
                               \cap IndexSet(NodeAt(eng[e].sparse_idx, n))
              IN  common # {} /\ Cardinality(common) < 12

\* C11: every node of every engine holds its strided indices at all times (no
\* call changes sparse_idx), and any two different nodes share no index; the
\* sampling rule gives disjoint subsets for any two of the nodes 0..19.
SparseDisjoint ==
    /\ \A e \in Engines :
          /\ \A n \in Nodes : StridedIndices(NodeAt(eng[e].sparse_idx, n), n)
          /\ \A m, n \in Nodes : m # n =>
                IndexSet(NodeAt(eng[e].sparse_idx, m))
                   \cap IndexSet(NodeAt(eng[e].sparse_idx, n)) = {}
    /\ \A i, j \in 0 .. 19 : i # j =>
          IndexSet(ChooseSparse(i)) \cap IndexSet(ChooseSparse(j)) = {}

\* An engine has gone through set_macros, control_step and a render that
\* fired a tick.
SparseWitness ==
    /\ CountOp(hist[1], "set_macros") >= 1
    /\ CountOp(hist[1], "control_step") >= 1
    /\ CountOp(hist[1], "render") >= 1
    /\ eng[1].ticks >= 1

\* C12: a render call fires all the control ticks of its block first and
\* then synthesizes every sample of the block from the one set of per-node
\* dphi, damp and morph the engine holds after the call; no sample uses the
\* values of an earlier tick, however many ticks the block spans.
BlockModulationFixed ==
    [][\A e \in Engines :
          (hist'[e] # hist[e] /\ Last(hist'[e]).op = "render") =>
              LET N == Last(hist'[e]).n
                  g == Last(hist'[e]).g
                  c == [eng'[e] EXCEPT !.node_phase = eng[e].node_phase]
                  block == Synth(c, N, g)
              IN  /\ Len(out'[e].L) = N /\ Len(out'[e].R) = N
                  /\ \A t \in 1 .. N :
                        /\ out'[e].L[t] = block.L[t]
                        /\ out'[e].R[t] = block.R[t]
                  /\ eng'[e].node_phase = block.eng.node_phase]_vars

\* A render of two samples has fired two ticks that moved the modulation
\* values away from their initial ones, and returned sound.
BlockWitness ==
    /\ Last(hist[1]).op = "render"
    /\ Last(hist[1]).n = 2
    /\ eng[1].samples_per_control = 1
    /\ eng[1].ticks = 2
    /\ eng[1].steps = 2
    /\ \E n \in 1 .. NumNodes : eng[1].damp[n] # Unit /\ eng[1].dphi[n] # 0
    /\ out[1].L[2] # 0

\* C13: after any sequence of set_macros, control_step and render calls all
\* the nodes of an engine hold the same state vector and the same morph; only
\* dphi and damp may differ between nodes.
NodesAlike ==
    \A e \in Engines : \A m, n \in 1 .. NumNodes :
        /\ eng[e].qs[m] = eng[e].qs[n]
        /\ eng[e].morph[m] = eng[e].morph[n]

\* Ticks have moved the nodes' vectors off zero and set a nonzero morph,
\* while the nodes' dphi and damp differ.
NodesWitness ==
    /\ eng[1].steps >= 2
    /\ CountOp(hist[1], "set_macros") >= 1
    /\ eng[1].qs[1] # ZeroVec
    /\ eng[1].morph[1] # 0
    /\ eng[1].dphi[1] # eng[1].dphi[2]
    /\ eng[1].damp[1] # eng[1].damp[2]

====
